---------------------------- MODULE Spec2Model ----------------------------
(***************************************************************************)
(* A model of convfade.py: the command-line routine main() and the         *)
(* crossfade routine convfade().                                           *)
(*                                                                         *)
(* Numbers.  Python floats are modelled by exact rationals <<n, d>> in     *)
(* lowest terms with d > 0.  A square root is modelled by its radicand:    *)
(* an amplitude array holds the squares of the amplitudes the code holds.  *)
(*                                                                         *)
(* Waveforms.  A mono waveform is the sequence of its sample indices       *)
(* (0-based, as in Python); slicing follows Python's rules, negative       *)
(* indices included.  A loaded waveform is [ndim, data]; the two channels  *)
(* of a stereo waveform carry the same index sequence.                     *)
(*                                                                         *)
(* librosa.  stft(y, n_fft) uses hop = n_fft // 4, returns 1 + n_fft // 2  *)
(* rows and 1 + len(y) // hop columns (centred frames); istft(D) derives   *)
(* n_fft = 2 * (rows - 1), hop = n_fft // 4 and returns hop * (cols - 1)   *)
(* samples; resample(y, a, b) returns ceil(len(y) * b / a) samples.        *)
(***************************************************************************)
EXTENDS Integers, Sequences, FiniteSets, TLC

(***************************************************************************)
(* Bounds of the model.                                                    *)
(***************************************************************************)
\* longest fade length drawn for --length, in milliseconds
MaxFadeMs == 16
\* longest frame length drawn for --frame, in milliseconds
MaxFrameMs == 13
\* longest clip drawn, in milliseconds
MaxClipMs == 16

\* milliseconds per second (lines 54 and 120)
MsPerSec == 1000
\* the gain applied to every blended frame (line 137)
Gain == 8

SampleRates == {1000, 2000}
FadeLens == 12..MaxFadeMs
FrameLens == 3..MaxFrameMs
ClipLens == 14..MaxClipMs
Paths == {"", "missing.wav", "clip.wav"}
\* the files path.exists() finds
Existing == {"clip.wav"}
OutPaths == {"", "out.wav"}

(***************************************************************************)
(* Rational arithmetic.                                                    *)
(***************************************************************************)
Abs(x) == IF x < 0 THEN -x ELSE x

RECURSIVE GCD(_, _)
GCD(a, b) == IF b = 0 THEN a ELSE GCD(b, a % b)

Rat(n, d) ==
    LET s == IF d < 0 THEN -1 ELSE 1
        g == GCD(Abs(n), Abs(d))
    IN  <<(s * n) \div g, (s * d) \div g>>

RInt(i) == <<i, 1>>
RAdd(a, b) == Rat(a[1] * b[2] + b[1] * a[2], a[2] * b[2])
RSub(a, b) == Rat(a[1] * b[2] - b[1] * a[2], a[2] * b[2])
RMul(a, b) == Rat(a[1] * b[1], a[2] * b[2])
RDiv(a, b) == Rat(a[1] * b[2], a[2] * b[1])
RLt(a, b) == a[1] * b[2] < b[1] * a[2]
RLe(a, b) == a[1] * b[2] <= b[1] * a[2]
\* int(x) of a non-negative float, and ceil(x)
RFloor(a) == a[1] \div a[2]
RCeil(a) == -((-a[1]) \div a[2])
Zero == RInt(0)
One == RInt(1)

(***************************************************************************)
(* Sequences and numpy arrays.                                             *)
(***************************************************************************)
Min(a, b) == IF a < b THEN a ELSE b
Max(a, b) == IF a > b THEN a ELSE b

\* the sample indices 0 .. n-1 of a clip of n samples
Samples(n) == [k \in 1..n |-> k - 1]

\* Python's s[lo:hi]
PySlice(s, lo, hi) ==
    LET n == Len(s)
        norm(x) == IF x < 0 THEN Max(x + n, 0) ELSE Min(x, n)
    IN  SubSeq(s, norm(lo) + 1, norm(hi))

\* Python's s[lo:]
PySliceFrom(s, lo) == PySlice(s, lo, Len(s))

\* np.repeat(v, n)
Repeat(v, n) == [k \in 1..n |-> v]

\* np.arange(start, stop) for a float start and step 1
Arange(start, stop) ==
    LET n == Max(RCeil(RSub(stop, start)), 0)
    IN  [k \in 1..n |-> RAdd(start, RInt(k - 1))]

\* nan, the square root of a negative number
NaN == <<0, 0>>

\* np.sqrt of an array, each entry held as its radicand
Sqrt(a) == [k \in 1..Len(a) |-> IF a[k][1] < 0 THEN NaN ELSE a[k]]

\* a[from:] = 0 and a[:to] = 0
ZeroFrom(a, from) == [k \in 1..Len(a) |-> IF k - 1 >= from THEN Zero ELSE a[k]]
ZeroUpTo(a, to) == [k \in 1..Len(a) |-> IF k - 1 < to THEN Zero ELSE a[k]]

\* numpy broadcasting of two one-dimensional shapes
Broadcasts(m, n) == m = n \/ m = 1 \/ n = 1

(***************************************************************************)
(* librosa.                                                                *)
(***************************************************************************)
\* hop_length of stft and istft: win_length // 4 with win_length = n_fft
HopLength(n_fft) == n_fft \div 4

\* the shape of stft(y, n_fft).T for len(y) = n: (frames, bins)
StftShape(n, n_fft) == <<1 + n \div HopLength(n_fft), 1 + n_fft \div 2>>

\* len(istft(D.T)) for D of shape (frames, bins)
IstftLen(shape) == HopLength(2 * (shape[2] - 1)) * (shape[1] - 1)

\* len(resample(y, orig_sr, target_sr)) for len(y) = n
ResampleLen(n, orig_sr, target_sr) == RCeil(Rat(n * target_sr, orig_sr))

(***************************************************************************)
(* State.  The variables of main() and, below them, those of convfade().   *)
(***************************************************************************)
VARIABLES
    pc,            \* the position of the run
    status,        \* -1 while running, then the exit status of the process
    exit_msg,      \* what ended a failed run
    steps,         \* the stages executed so far
    args,          \* the parsed command line
    start_w, end_w, start_sr, end_sr, start_dur, end_dur,
    sr,            \* the global sample rate
    chan,          \* the channel being faded
    main_result,   \* the faded channels (result_l, result_r / result)
    written,       \* the files written
    p,             \* the arguments of the running call of convfade
    fade_len_s, fade_start, frame_len_s, start_stft, end_stft,
    result_stft, result_fade, half_way, start_amp, end_amp, result

mainVars == <<args, start_w, end_w, start_sr, end_sr, start_dur, end_dur, sr,
              chan, main_result, written>>
cfVars == <<p, fade_len_s, fade_start, frame_len_s, start_stft, end_stft,
            result_stft, result_fade, half_way, start_amp, end_amp, result>>
vars == <<pc, status, exit_msg, steps, mainVars, cfVars>>

NoWave == [ndim |-> 0, data |-> <<>>]
NoArgs == [start |-> "", end |-> "", output |-> "", length |-> Zero, frame |-> 0]
NoCall == [start_w |-> <<>>, end_w |-> <<>>, sr |-> 0, fade_len |-> Zero, frame_len |-> 0]

MainInit ==
    /\ args = NoArgs
    /\ start_w = NoWave /\ end_w = NoWave
    /\ start_sr = 0 /\ end_sr = 0
    /\ start_dur = Zero /\ end_dur = Zero
    /\ sr = 0 /\ chan = 0
    /\ main_result = <<>>
    /\ written = {}

CfInit ==
    /\ fade_len_s = 0 /\ fade_start = 0 /\ frame_len_s = 0
    /\ start_stft = <<0, 0>> /\ end_stft = <<0, 0>>
    /\ result_stft = <<>> /\ result_fade = <<>>
    /\ half_way = Zero
    /\ start_amp = <<>> /\ end_amp = <<>>
    /\ result = <<>>

Init ==
    /\ pc = "parse" /\ status = -1 /\ exit_msg = "" /\ steps = {}
    /\ MainInit /\ CfInit /\ p = NoCall

\* sys.exit(msg), a failed assertion and an uncaught exception all end the
\* process with status 1
Exit(msg) ==
    /\ pc' = "exit" /\ status' = 1 /\ exit_msg' = msg

(***************************************************************************)
(* main()                                                                  *)
(***************************************************************************)
\* lines 15-26: the command line; --length in seconds, --frame in milliseconds
ParseArgs ==
    /\ pc = "parse"
    /\ \E s \in Paths, e \in Paths, o \in OutPaths, l \in FadeLens, f \in FrameLens :
          args' = [start |-> s, end |-> e, output |-> o,
                   length |-> Rat(l, MsPerSec), frame |-> f]
    /\ pc' = "check_args"
    /\ steps' = steps \cup {"parse"}
    /\ UNCHANGED <<status, exit_msg, start_w, end_w, start_sr, end_sr, start_dur,
                   end_dur, sr, chan, main_result, written, cfVars>>

StartOk == args.start # "" /\ args.start \in Existing
EndOk == args.end # "" /\ args.end \in Existing
OutputOk == args.output # ""

\* lines 28-33
CheckArgs ==
    /\ pc = "check_args"
    /\ IF ~StartOk THEN Exit("Invalid start audio path")
       ELSE IF ~EndOk THEN Exit("Invalid end audio path")
       ELSE IF ~OutputOk THEN Exit("No output path given.")
       ELSE pc' = "load" /\ UNCHANGED <<status, exit_msg>>
    /\ steps' = steps \cup {"check_args"}
    /\ UNCHANGED <<mainVars, cfVars>>

\* lines 35-49: load both clips, conform mono to stereo, take the durations
Load ==
    /\ pc = "load"
    /\ \E sms \in ClipLens, ems \in ClipLens, ssr \in SampleRates, esr \in SampleRates,
          sd \in 1..2, ed \in 1..2 :
          LET sn == (sms * ssr) \div MsPerSec
              en == (ems * esr) \div MsPerSec
              nd == IF sd > 1 \/ ed > 1 THEN 2 ELSE 1
          IN  /\ start_w' = [ndim |-> nd, data |-> Samples(sn)]
              /\ end_w' = [ndim |-> nd, data |-> Samples(en)]
              /\ start_sr' = ssr /\ end_sr' = esr
              /\ start_dur' = Rat(sn, ssr)
              /\ end_dur' = Rat(en, esr)
    /\ pc' = "check_len"
    /\ steps' = steps \cup {"load"}
    /\ UNCHANGED <<status, exit_msg, args, sr, chan, main_result, written, cfVars>>

\* line 51 and line 54, negated
LengthOk == ~(RLt(start_dur, args.length) \/ RLt(end_dur, args.length))
FrameOk == ~RLt(RMul(args.length, RInt(MsPerSec)), RInt(args.frame))

\* the length checks without the check of the frame length
CheckLengthsNoFrame ==
    /\ pc = "check_len"
    /\ IF ~LengthOk THEN Exit("Length of fade greater than length of a clip")
       ELSE pc' = "match" /\ UNCHANGED <<status, exit_msg>>
    /\ steps' = steps \cup {"check_len"}
    /\ UNCHANGED <<mainVars, cfVars>>

\* lines 51-56
CheckLengths ==
    /\ pc = "check_len"
    /\ IF ~LengthOk THEN Exit("Length of fade greater than length of a clip")
       ELSE IF ~FrameOk THEN Exit("Length of FFT frames is greater than the crossfade")
       ELSE pc' = "match" /\ UNCHANGED <<status, exit_msg>>
    /\ steps' = steps \cup {"check_len"}
    /\ UNCHANGED <<mainVars, cfVars>>

\* lines 62-71: the global sample rate is the higher of the two
MatchRates ==
    /\ pc = "match"
    /\ end_w' = IF start_sr > end_sr
                THEN [end_w EXCEPT !.data =
                         Samples(ResampleLen(Len(end_w.data), end_sr, start_sr))]
                ELSE end_w
    /\ start_w' = IF end_sr > start_sr
                  THEN [start_w EXCEPT !.data =
                           Samples(ResampleLen(Len(start_w.data), start_sr, end_sr))]
                  ELSE start_w
    /\ sr' = IF end_sr > start_sr THEN end_sr ELSE start_sr
    /\ steps' = steps \cup {"match"} \cup (IF start_sr # end_sr THEN {"resample"} ELSE {})
    /\ chan' = 0
    /\ pc' = "fade"
    /\ UNCHANGED <<status, exit_msg, args, start_sr, end_sr, start_dur, end_dur,
                   main_result, written, cfVars>>

\* lines 80, 82 and 86: call convfade on the channel
Fade ==
    /\ pc = "fade"
    /\ p' = [start_w |-> start_w.data, end_w |-> end_w.data, sr |-> sr,
             fade_len |-> args.length, frame_len |-> args.frame]
    /\ fade_len_s' = 0 /\ fade_start' = 0 /\ frame_len_s' = 0
    /\ start_stft' = <<0, 0>> /\ end_stft' = <<0, 0>>
    /\ result_stft' = <<>> /\ result_fade' = <<>>
    /\ half_way' = Zero
    /\ start_amp' = <<>> /\ end_amp' = <<>>
    /\ result' = <<>>
    /\ pc' = "cf_stft"
    /\ steps' = steps \cup {"fade"}
    /\ UNCHANGED <<status, exit_msg, mainVars>>

\* lines 80-87: take the value convfade returned; the next channel or the export
FadeReturn ==
    /\ pc = "cf_return"
    /\ main_result' = Append(main_result, result)
    /\ IF chan + 1 < start_w.ndim
       THEN chan' = chan + 1 /\ pc' = "fade"
       ELSE chan' = chan /\ pc' = "export"
    /\ UNCHANGED <<status, exit_msg, steps, args, start_w, end_w, start_sr, end_sr,
                   start_dur, end_dur, sr, written, cfVars>>

\* lines 93-95: write the file, and the process ends with status 0
Export ==
    /\ pc = "export"
    /\ written' = written \cup {[path |-> args.output, data |-> main_result, sr |-> sr]}
    /\ steps' = steps \cup {"write"}
    /\ pc' = "done" /\ status' = 0
    /\ UNCHANGED <<exit_msg, args, start_w, end_w, start_sr, end_sr, start_dur,
                   end_dur, sr, chan, main_result, cfVars>>

(***************************************************************************)
(* convfade(start_w, end_w, sr, fade_len, frame_len)                       *)
(***************************************************************************)
\* line 114: the fade length in samples
FadeLenS(rate, fade_len) == RFloor(RMul(RInt(rate), fade_len))

\* line 117: the index in the start clip at which the fade begins
FadeStart(w, len_s) == (Len(w) - 1) - len_s

\* line 120: the frame length in samples
FrameLenS(frame_len, rate) == RFloor(RMul(Rat(frame_len, MsPerSec), RInt(rate)))

\* line 128: the midpoint of the schedule, a true division
HalfWay(n) == Rat(n, 2)

\* the schedule with the sign of the second half's ramp flipped
ScalesRising(i, half) ==
    IF RLt(RInt(i), half)
    THEN <<One, RDiv(RInt(i), half)>>
    ELSE <<RDiv(RAdd(half, RSub(RInt(i), half)), half), One>>

\* the schedule as two linear ramps, neither held at 1
ScalesUnclamped(i, half) ==
    <<RDiv(RSub(half, RSub(RInt(i), half)), half), RDiv(RInt(i), half)>>

\* lines 130-135: (start_scale, end_scale) of frame i
Scales(i, half) ==
    IF RLt(RInt(i), half)
    THEN <<One, RDiv(RInt(i), half)>>
    ELSE <<RDiv(RSub(half, RSub(RInt(i), half)), half), One>>

\* lines 137-138: the blended frame i, by what it is computed from
Convolved(i, half) ==
    [frame |-> i, gain |-> Gain,
     start_scale |-> Scales(i, half)[1], end_scale |-> Scales(i, half)[2]]

\* len(istft(result_stft.T)), line 144
FadeLen(stft, bins) == IstftLen(<<Len(stft), bins>>)

\* lines 150-153: the envelope of the start clip over a segment of n samples
StartAmp(n) ==
    LET half == Rat(n, 2)
        ih == RFloor(half)
        a == Arange(Zero, half) \o Repeat(RInt(ih), ih)
        b == Sqrt([k \in 1..Len(a) |-> RSub(One, RDiv(a[k], half))])
    IN  ZeroFrom(b, ih)

\* lines 155-158: the envelope of the end clip over a segment of n samples
EndAmp(n) ==
    LET half == Rat(n, 2)
        ih == RFloor(half)
        a == Repeat(RInt(ih), ih) \o Arange(half, RInt(n))
        b == Sqrt([k \in 1..Len(a) |-> RDiv(RSub(a[k], half), half)])
    IN  ZeroUpTo(b, ih)

\* the length of the broadcast of shapes (m,) and (n,), and the entry used at k
BLen(m, n) == IF m = 1 THEN n ELSE m
At(a, k) == a[IF Len(a) = 1 THEN 1 ELSE k]

\* line 161: the slice of the start clip mixed back into the segment
StartSlice(w, from, n) == PySlice(w, from, from + n)

\* line 163: the slice of the end clip mixed back into the segment
EndSlice(w, n) == PySlice(w, 0, n)

\* lines 160-161: result_fade + start_amp * slice
AddStart(fade, amp, slice) ==
    LET m == BLen(Len(amp), Len(slice))
    IN  [k \in 1..BLen(Len(fade), m) |-> [At(fade, k) EXCEPT !.s = At(slice, k)]]

\* lines 162-163: result_fade + end_amp * slice
AddEnd(fade, amp, slice) ==
    LET m == BLen(Len(amp), Len(slice))
    IN  [k \in 1..BLen(Len(fade), m) |-> [At(fade, k) EXCEPT !.e = At(slice, k)]]

\* an untouched sample of a clip, as it appears in the result
Untouched(clip, w) == [k \in 1..Len(w) |-> [src |-> clip, idx |-> w[k], s |-> -1, e |-> -1]]

\* line 165: the prefix of the start clip kept in front of the segment
Prefix(w, from) == PySlice(w, 0, from)

\* the whole end clip appended, its faded head included
SuffixWhole(w, len_s) == PySliceFrom(w, 0)

\* line 166: the suffix of the end clip appended after the segment
Suffix(w, len_s) == PySliceFrom(w, len_s)

\* lines 113-124: the sizes, the two analyses and the assertion
CfStft ==
    /\ pc = "cf_stft"
    /\ fade_len_s' = FadeLenS(p.sr, p.fade_len)
    /\ fade_start' = FadeStart(p.start_w, fade_len_s')
    /\ frame_len_s' = FrameLenS(p.frame_len, p.sr)
    /\ steps' = steps \cup {"stft"}
    /\ IF HopLength(frame_len_s') = 0
       THEN /\ Exit("stft: invalid hop length")
            /\ UNCHANGED <<start_stft, end_stft>>
       ELSE /\ start_stft' = StftShape(Len(PySliceFrom(p.start_w, fade_start')), frame_len_s')
            /\ end_stft' = StftShape(Len(PySlice(p.end_w, 0, fade_len_s')), frame_len_s')
            /\ IF start_stft' # end_stft'
               THEN Exit("STFT shapes not equal.")
               ELSE pc' = "cf_blend" /\ UNCHANGED <<status, exit_msg>>
    /\ UNCHANGED <<mainVars, p, result_stft, result_fade, half_way, start_amp,
                   end_amp, result>>

\* lines 126-140: the schedule and the blended frames
CfBlend ==
    /\ pc = "cf_blend"
    /\ half_way' = HalfWay(start_stft[1])
    /\ result_stft' = [i \in 1..start_stft[1] |-> Convolved(i - 1, half_way')]
    /\ pc' = "cf_istft"
    /\ UNCHANGED <<status, exit_msg, steps, mainVars, p, fade_len_s, fade_start,
                   frame_len_s, start_stft, end_stft, result_fade, start_amp,
                   end_amp, result>>

\* lines 143-144: the synthesized segment
CfIstft ==
    /\ pc = "cf_istft"
    /\ result_fade' = [k \in 1..FadeLen(result_stft, start_stft[2]) |->
                          [src |-> "fade", idx |-> k - 1, s |-> -1, e |-> -1]]
    /\ pc' = "cf_stitch"
    /\ UNCHANGED <<status, exit_msg, steps, mainVars, p, fade_len_s, fade_start,
                   frame_len_s, start_stft, end_stft, result_stft, half_way,
                   start_amp, end_amp, result>>

\* lines 147-163: the envelopes, and the clips mixed back into the segment
CfStitch ==
    /\ pc = "cf_stitch"
    /\ half_way' = Rat(Len(result_fade), 2)
    /\ start_amp' = StartAmp(Len(result_fade))
    /\ end_amp' = EndAmp(Len(result_fade))
    /\ LET ss == StartSlice(p.start_w, fade_start, Len(result_fade))
           ok1 == /\ Broadcasts(Len(start_amp'), Len(ss))
                  /\ Broadcasts(Len(result_fade), BLen(Len(start_amp'), Len(ss)))
           f1 == AddStart(result_fade, start_amp', ss)
           es == EndSlice(p.end_w, Len(f1))
           ok2 == /\ Broadcasts(Len(end_amp'), Len(es))
                  /\ Broadcasts(Len(f1), BLen(Len(end_amp'), Len(es)))
       IN  IF ok1 /\ ok2
           THEN /\ result_fade' = AddEnd(f1, end_amp', es)
                /\ pc' = "cf_assemble"
                /\ UNCHANGED <<status, exit_msg>>
           ELSE /\ Exit("operands could not be broadcast together")
                /\ UNCHANGED result_fade
    /\ UNCHANGED <<steps, mainVars, p, fade_len_s, fade_start, frame_len_s,
                   start_stft, end_stft, result_stft, result>>

\* lines 165-168: prefix, segment and suffix, returned
CfAssemble ==
    /\ pc = "cf_assemble"
    /\ result' = Untouched("start", Prefix(p.start_w, fade_start))
                   \o result_fade
                   \o Untouched("end", Suffix(p.end_w, fade_len_s))
    /\ pc' = "cf_return"
    /\ UNCHANGED <<status, exit_msg, steps, mainVars, p, fade_len_s, fade_start,
                   frame_len_s, start_stft, end_stft, result_stft, result_fade,
                   half_way, start_amp, end_amp>>

(***************************************************************************)
(* Specifications.                                                         *)
(***************************************************************************)
Next ==
    \/ ParseArgs
    \/ CheckArgs
    \/ Load
    \/ CheckLengths
    \/ MatchRates
    \/ Fade
    \/ CfStft
    \/ CfBlend
    \/ CfIstft
    \/ CfStitch
    \/ CfAssemble
    \/ FadeReturn
    \/ Export

\* a run of main()
Spec == Init /\ [][Next]_vars

\* convfade() called on its own: any clips, fade length and frame length
CallLens == 2..MaxFadeMs
CallClips == 12..(MaxClipMs + 1)

ConvInit ==
    /\ pc = "cf_stft" /\ status = -1 /\ exit_msg = "" /\ steps = {}
    /\ MainInit /\ CfInit
    /\ \E sn \in CallClips, en \in CallClips, l \in CallLens, f \in FrameLens :
          p = [start_w |-> Samples(sn), end_w |-> Samples(en), sr |-> MsPerSec,
               fade_len |-> Rat(l, MsPerSec), frame_len |-> f]

ConvNext ==
    \/ CfStft
    \/ CfBlend
    \/ CfIstft
    \/ CfStitch
    \/ CfAssemble

ConvSpec == ConvInit /\ [][ConvNext]_vars

(***************************************************************************)
(* Properties.                                                             *)
(***************************************************************************)
\* the frame count of the schedule held in result_stft
NFrames == Len(result_stft)
\* the length of the synthesized segment
SegLen == Len(result_fade)
InUnit(x) == RLe(Zero, x) /\ RLe(x, One)

\* C1: for every frame count N >= 2 the schedule is monotonic (start_scale
\* never rises, end_scale never falls from one frame to the next) and frame 0
\* has exactly (start_scale, end_scale) = (1, 0).
C1_ScheduleMonotonic ==
    NFrames >= 2 =>
        /\ result_stft[1].start_scale = One
        /\ result_stft[1].end_scale = Zero
        /\ \A i \in 1..(NFrames - 1) :
              /\ RLe(result_stft[i + 1].start_scale, result_stft[i].start_scale)
              /\ RLe(result_stft[i].end_scale, result_stft[i + 1].end_scale)

\* an odd schedule whose start weight has fallen and whose end weight has risen
C1_Witness ==
    /\ NFrames = 5
    /\ RLt(result_stft[5].start_scale, result_stft[2].start_scale)
    /\ RLt(result_stft[1].end_scale, result_stft[2].end_scale)

\* C2: in a run of main that passed validation and matched the rates, the two
\* spectrograms have the same shape, so the assertion of line 124 never fires.
C2_AssertionNeverFires ==
    ~(pc = "exit" /\ exit_msg = "STFT shapes not equal.")

\* C3: the output file is written only after every validation check passed and
\* the frame-count assertion held; a failed check ends the run with a non-zero
\* status before any rate matching, analysis or write; no failed run writes.
C3_WriteOnlyAfterChecks ==
    /\ ("write" \in steps \/ written # {}) =>
          /\ args.start # "" /\ args.start \in Existing
          /\ args.end # "" /\ args.end \in Existing
          /\ args.output # ""
          /\ RLe(args.length, start_dur) /\ RLe(args.length, end_dur)
          /\ RLe(RInt(args.frame), RMul(args.length, RInt(MsPerSec)))
          /\ "stft" \in steps /\ start_stft = end_stft
          /\ Len(main_result) = start_w.ndim
          /\ status = 0
    /\ status = 1 => written = {} /\ "write" \notin steps
    /\ (/\ pc \notin {"parse", "check_args", "load", "check_len"}
        /\ \/ args.start \notin Existing \/ args.end \notin Existing
           \/ args.output = ""
           \/ RLt(start_dur, args.length) \/ RLt(end_dur, args.length)
           \/ RLt(RMul(args.length, RInt(MsPerSec)), RInt(args.frame)))
       => /\ pc = "exit" /\ status = 1
          /\ steps \cap {"match", "resample", "fade", "stft", "write"} = {}

\* a stereo run that got through every check and wrote its file
C3_Witness ==
    /\ pc = "done" /\ status = 0
    /\ \E f \in written : f.path = args.output /\ Len(f.data) = 2

\* C4: the waveform convfade returns is start_w[0 .. len(start_w) - fade_len_s)
\* followed by the fade segment followed by end_w[fade_len_s ..]; the untouched
\* prefix has exactly len(start_w) - fade_len_s samples.
C4_ResultIsPrefixFadeSuffix ==
    pc = "cf_return" =>
        result = Untouched("start", SubSeq(p.start_w, 1, Len(p.start_w) - fade_len_s))
                   \o result_fade
                   \o Untouched("end", SubSeq(p.end_w, fade_len_s + 1, Len(p.end_w)))

\* C5: for every frame count N >= 2 and every frame, start_scale and end_scale
\* both lie in [0, 1].
C5_ScalesInUnitInterval ==
    NFrames >= 2 =>
        \A i \in 1..NFrames :
            InUnit(result_stft[i].start_scale) /\ InUnit(result_stft[i].end_scale)

\* an odd schedule with weights strictly inside (0, 1)
C5_Witness ==
    /\ NFrames >= 2 /\ NFrames % 2 = 1
    /\ \E i \in 1..NFrames :
          RLt(Zero, result_stft[i].start_scale) /\ RLt(result_stft[i].start_scale, One)
    /\ \E i \in 1..NFrames :
          RLt(Zero, result_stft[i].end_scale) /\ RLt(result_stft[i].end_scale, One)

\* the samples the result falls short of len(start) + len(end) - fade_len_s
Shortfall == Len(p.start_w) + Len(p.end_w) - fade_len_s - Len(result)

\* C6: when convfade completes in a validated run, len(result) =
\* len(start) + len(end) - fade_len_s - r with 0 <= r < hop: the result is
\* never longer than len(start) + len(end) - fade_len_s and is short of it by
\* less than one hop.
C6_LengthUpToHopRounding ==
    pc = "cf_return" => 0 <= Shortfall /\ Shortfall < HopLength(frame_len_s)

\* a completed call whose result is short by more than one sample
C6_Witness ==
    pc = "cf_return" /\ Shortfall >= 2 /\ fade_len_s % HopLength(frame_len_s) # 0

\* C7: every position that depends on the extent of the synthesized segment
\* uses its actual length L: both envelopes and both mixed-in slices have L
\* entries, and the end-clip suffix after the segment begins at end-clip index
\* L, so the end-clip samples 0 .. L-1 of the segment and those of the suffix
\* are contiguous.
C7_SuffixStartsAtSegmentEnd ==
    pc = "cf_return" =>
        /\ Len(start_amp) = SegLen /\ Len(end_amp) = SegLen
        /\ \A k \in 1..SegLen :
              result_fade[k].s = fade_start + k - 1 /\ result_fade[k].e = k - 1
        /\ \A k \in 2..Len(result) :
              (result[k].src = "end" /\ result[k - 1].src # "end")
                  => result[k].idx = SegLen

\* C8: the midpoint of the schedule is the integer floor(N / 2), bound and
\* divisor alike: for every N >= 2 frame i has (1, i / half) if i < half and
\* ((half - (i - half)) / half, 1) otherwise, with half = floor(N / 2).
C8_MidpointIsFloor ==
    NFrames >= 2 =>
        LET half == NFrames \div 2
        IN  \A i \in 0..(NFrames - 1) :
                <<result_stft[i + 1].start_scale, result_stft[i + 1].end_scale>>
                    = IF i < half
                      THEN <<One, Rat(i, half)>>
                      ELSE <<Rat(half - (i - half), half), One>>

\* max(0, x)
RMax0(x) == IF RLt(x, Zero) THEN Zero ELSE x

\* C9: for every segment length L >= 2 and halfL = L / 2, start_amp[k]^2 is
\* max(0, 1 - k / halfL) for k < halfL and 0 otherwise, end_amp[k]^2 is
\* max(0, (k - halfL) / halfL) for k >= halfL and 0 otherwise; both arrays have
\* L entries and at every k at most one of them is non-zero.
C9_EnvelopesFollowRule ==
    (pc = "cf_assemble" /\ SegLen >= 2) =>
        LET halfL == Rat(SegLen, 2)
        IN  /\ Len(start_amp) = SegLen /\ Len(end_amp) = SegLen
            /\ \A k \in 0..(SegLen - 1) :
                  /\ start_amp[k + 1] =
                        IF RLt(RInt(k), halfL)
                        THEN RMax0(RSub(One, RDiv(RInt(k), halfL)))
                        ELSE Zero
                  /\ end_amp[k + 1] =
                        IF RLe(halfL, RInt(k))
                        THEN RMax0(RDiv(RSub(RInt(k), halfL), halfL))
                        ELSE Zero
                  /\ start_amp[k + 1] = Zero \/ end_amp[k + 1] = Zero

\* C10: in every run that passed the length validation, fade_start is >= 0,
\* so no slice of start_w takes a negative index.
C10_FadeStartNonNegative ==
    fade_start >= 0

=============================================================================
